---- MODULE Spec2Model ----
(***************************************************************************)
(* Library management backend: the books and borrows tables (db.js), the   *)
(* POST /borrow and POST /return/:borrowId handlers (routes/borrow.js),    *)
(* POST /books and DELETE /books/:id (routes/books.js) and the two daily   *)
(* notification jobs (emailService.js).                                    *)
(*                                                                         *)
(* Time is counted in ticks, TicksPerDay of them to a UTC day.  A stored   *)
(* timestamp is the text Date.toISOString() produces, kept as the pair     *)
(* <<date part, time part>>; SQLite's date('now') is the text <<date       *)
(* part>> alone, and the two are compared as SQLite compares TEXT.         *)
(***************************************************************************)
EXTENDS Integers, Sequences, FiniteSets, TLC

VARIABLES books, bookSeq, borrows, now, req, cron

vars == <<books, bookSeq, borrows, now, req, cron>>

\* ------------------------------------------------------------- bounds
MaxBooks == 2
MaxLoans == 3
MaxReqs == 2
TicksPerDay == 2
MaxDays == 15

\* the 14-day return period
LoanDays == 14

Reqs == 1 .. MaxReqs

\* request bodies offered to POST /borrow: bookId 0 stands for a missing
\* bookId, the empty text for a missing userEmail
BookIdInputs == 0 .. MaxBooks
EmailInputs == { <<>>, <<"x", "@", "y">>, <<"x", "@", "y", ".", "z">> }

\* ------------------------------------------------------- dates and text
toISOString(t) == <<t \div TicksPerDay, t % TicksPerDay>>

parseDate(s) == s[1] * TicksPerDay + s[2]

setDate(t, days) == t + days * TicksPerDay

\* SQLite date('now'): the date part only
sqlDateNowFull(t) == toISOString(t)
sqlDateNow(t) == <<t \div TicksPerDay>>

\* TEXT comparison (memcmp order; a proper prefix sorts first)
RECURSIVE textLess(_, _)
textLess(a, b) ==
  IF b = <<>> THEN FALSE
  ELSE IF a = <<>> THEN TRUE
  ELSE IF Head(a) < Head(b) THEN TRUE
  ELSE IF Head(a) > Head(b) THEN FALSE
  ELSE textLess(Tail(a), Tail(b))

\* /^[^\s@]+@[^\s@]+\.[^\s@]+$/
emailOk(e) ==
  \E i \in 1 .. Len(e) : \E j \in 1 .. Len(e) :
    /\ e[i] = "@" /\ e[j] = "."
    /\ 1 < i /\ i + 1 < j /\ j < Len(e)
    /\ \A k \in 1 .. Len(e) : k # i => e[k] \notin {"@", " "}

\* ------------------------------------------------------------- db.js
getBookById(id) == IF id \in DOMAIN books THEN <<books[id]>> ELSE <<>>

\* the two guards of addBorrow; "" when it goes on to write
addBorrowErrorNoCheck(bookId) ==
  IF getBookById(bookId) = <<>> THEN "Book not found" ELSE ""
addBorrowError(bookId) ==
  IF getBookById(bookId) = <<>> THEN "Book not found"
  ELSE IF ~ books[bookId].available THEN "Book is not available"
  ELSE ""

\* UPDATE books SET available = FALSE WHERE id = ?
markUnavailableSkipped(bookId) == books
markUnavailable(bookId) ==
  IF bookId \in DOMAIN books
    THEN [books EXCEPT ![bookId].available = FALSE] ELSE books

\* UPDATE books SET available = TRUE WHERE id = ?
markAvailableSkipped(bookId) == books
markAvailable(bookId) ==
  IF bookId \in DOMAIN books
    THEN [books EXCEPT ![bookId].available = TRUE] ELSE books

\* the row addBorrow inserts: borrowDate is the first reading of the clock,
\* returnDate a second reading moved 14 days on
borrowRow(bookId, userEmail, t1, t2) ==
  [ book_id |-> bookId, user_email |-> userEmail,
    borrow_date |-> toISOString(t1),
    return_date |-> toISOString(setDate(t2, LoanDays)),
    returned |-> FALSE ]

ids == [i \in 1 .. Len(borrows) |-> i]

isPending(i) ==
  /\ ~ borrows[i].returned
  /\ ~ textLess(borrows[i].return_date, sqlDateNow(now))
  /\ borrows[i].book_id \in DOMAIN books

isOverdue(i) ==
  /\ ~ borrows[i].returned
  /\ textLess(borrows[i].return_date, sqlDateNow(now))
  /\ borrows[i].book_id \in DOMAIN books

getPendingReturns == SelectSeq(ids, isPending)

getOverdueBooks == SelectSeq(ids, isOverdue)

\* ------------------------------------------------------- request slots
Idle ==
  [ pc |-> "idle", bookId |-> 0, userEmail |-> <<>>,
    book |-> <<>>, borrow |-> 0, status |-> 0, error |-> "" ]

\* a request that has been answered; bookId and book are kept only for a
\* request that went on to call addBorrow
Response(bookId, book, borrow, status, error) ==
  [ pc |-> "done", bookId |-> bookId, userEmail |-> <<>>,
    book |-> book, borrow |-> borrow, status |-> status, error |-> error ]

NoRun ==
  [ pc |-> "idle", job |-> "none", list |-> <<>>, idx |-> 0, today |-> 0,
    attempted |-> {} ]

Init ==
  /\ books = << >>
  /\ bookSeq = 0
  /\ borrows = << >>
  /\ now = 0
  /\ req = [r \in Reqs |-> Idle]
  /\ cron = NoRun

\* ---------------------------------------------------- routes/books.js
\* POST /books with a well-formed body and an unused ISBN
PostBook ==
  /\ bookSeq < MaxBooks
  /\ bookSeq' = bookSeq + 1
  /\ books' = [i \in DOMAIN books \cup {bookSeq + 1} |->
                 IF i = bookSeq + 1 THEN [available |-> TRUE] ELSE books[i]]
  /\ UNCHANGED <<borrows, now, req, cron>>

\* DELETE /books/:id; the borrows.book_id foreign key keeps a book that any
\* borrow row references
DeleteBook(id) ==
  /\ id \in DOMAIN books
  /\ \A i \in 1 .. Len(borrows) : borrows[i].book_id # id
  /\ books' = [i \in DOMAIN books \ {id} |-> books[i]]
  /\ UNCHANGED <<bookSeq, borrows, now, req, cron>>

\* --------------------------------------------------- routes/borrow.js
\* POST /borrow up to its first await: validation and the lookup
BorrowReceive(r, bookId, userEmail) ==
  /\ req[r].pc \in {"idle", "done"}
  /\ req' = [req EXCEPT ![r] =
       IF bookId = 0 \/ userEmail = <<>>
         THEN Response(0, <<>>, 0, 400,
                       "Book ID and user email are required")
       ELSE IF ~ emailOk(userEmail)
         THEN Response(0, <<>>, 0, 400, "Invalid email format")
       ELSE [ Idle EXCEPT !.pc = "lookedUp",
                          !.bookId = bookId, !.userEmail = userEmail,
                          !.book = getBookById(bookId) ]]
  /\ UNCHANGED <<books, bookSeq, borrows, now, cron>>

\* resumed after the lookup: the 404, then addBorrow (synchronous)
BorrowAdd(r) ==
  /\ req[r].pc = "lookedUp"
  /\ LET b == req[r].bookId
         err == addBorrowError(b)
     IN IF req[r].book = <<>>
          THEN /\ req' = [req EXCEPT ![r] =
                            Response(0, <<>>, 0, 404, "Book not found")]
               /\ UNCHANGED <<books, borrows, now>>
        ELSE IF err # ""
          THEN /\ req' = [req EXCEPT ![r] =
                            Response(b, req[r].book, 0,
                              IF err = "Book is not available" THEN 400 ELSE 500,
                              err)]
               /\ UNCHANGED <<books, borrows, now>>
        ELSE /\ Len(borrows) < MaxLoans
             /\ \E t2 \in {now, now + 1} :
                  /\ now' = t2
                  /\ books' = markUnavailable(b)
                  /\ borrows' = Append(borrows,
                                  borrowRow(b, req[r].userEmail, now, t2))
             /\ req' = [req EXCEPT ![r].pc = "added",
                                   ![r].borrow = Len(borrows) + 1]
  /\ UNCHANGED <<bookSeq, cron>>

\* resumed after addBorrow: the response's returnDate, then sendBorrowEmail
BorrowSend(r) ==
  /\ req[r].pc = "added"
  /\ req' = [req EXCEPT ![r].pc = "mailing"]
  /\ UNCHANGED <<books, bookSeq, borrows, now, cron>>

\* transporter.sendMail settles
BorrowMailDone(r, ok) ==
  /\ req[r].pc = "mailing"
  /\ req' = [req EXCEPT ![r] =
       IF ok THEN Response(req[r].bookId, req[r].book, req[r].borrow, 200, "")
             ELSE Response(req[r].bookId, req[r].book, req[r].borrow, 500, "smtp")]
  /\ UNCHANGED <<books, bookSeq, borrows, now, cron>>

\* db.js markAsReturned on an existing borrow row
markAsReturned(borrowId) ==
  /\ books' = markAvailable(borrows[borrowId].book_id)
  /\ borrows' = [borrows EXCEPT ![borrowId].returned = TRUE]

\* POST /return/:borrowId; an unknown id is answered 404 and changes nothing
PostReturn(borrowId) ==
  /\ borrowId \in 1 .. Len(borrows)
  /\ markAsReturned(borrowId)
  /\ UNCHANGED <<bookSeq, now, req, cron>>

\* the clock moves on
Tick(d) ==
  /\ now + d <= (MaxDays + 1) * TicksPerDay - 1
  /\ now' = now + d
  /\ UNCHANGED <<books, bookSeq, borrows, req, cron>>

\* ---------------------------------------------------- emailService.js
\* Math.ceil((returnDate - today) / (1000 * 60 * 60 * 24))
daysUntilDue(returnDate, today) == - ((today - returnDate) \div TicksPerDay)

\* whether the loop body sends a mail for this row
sendsMail(job, i, today) ==
  \/ job = "overdue"
  \/ /\ job = "reminder"
     /\ LET d == daysUntilDue(parseDate(borrows[i].return_date), today)
        IN d <= 2 /\ d > 0

\* the first position from k on whose row gets a mail; Len(list) + 1 if none
RECURSIVE nextSend(_, _, _, _)
nextSend(job, list, today, k) ==
  IF k > Len(list) THEN k
  ELSE IF sendsMail(job, list[k], today) THEN k
  ELSE nextSend(job, list, today, k + 1)

\* the run after the mail at position k - 1: awaiting the next mail, or over
runFrom(job, list, today, attempted, k) ==
  LET j == nextSend(job, list, today, k)
  IN IF j > Len(list)
       THEN [ pc |-> "finished", job |-> job, list |-> list, idx |-> 0,
              today |-> 0, attempted |-> attempted ]
       ELSE [ pc |-> "sending", job |-> job, list |-> list, idx |-> j,
              today |-> today, attempted |-> attempted \cup {list[j]} ]

\* the catch around the whole loop: the run is over
runAborted(run) ==
  [ pc |-> "aborted", job |-> run.job, list |-> run.list, idx |-> 0,
    today |-> 0, attempted |-> run.attempted ]

\* a scheduled job starts: the query, then the loop up to its first await.
\* The schedule is in the server's zone, whose offset from UTC the source does
\* not fix, so a run may start at any tick.
CronFire(job) ==
  /\ cron.pc # "sending"
  /\ cron' = runFrom(job,
                     IF job = "reminder" THEN getPendingReturns ELSE getOverdueBooks,
                     now, {}, 1)
  /\ UNCHANGED <<books, bookSeq, borrows, now, req>>

\* the awaited sendReminderEmail / sendOverdueEmail settles
CronMailDone(ok) ==
  /\ cron.pc = "sending"
  /\ cron' = IF ok
               THEN runFrom(cron.job, cron.list, cron.today, cron.attempted,
                            cron.idx + 1)
               ELSE runAborted(cron)
  /\ UNCHANGED <<books, bookSeq, borrows, now, req>>

\* ------------------------------------------------------ specifications
\* request handling
Next ==
  \/ PostBook
  \/ \E id \in 1 .. MaxBooks : DeleteBook(id)
  \/ \E r \in Reqs, b \in BookIdInputs, e \in EmailInputs : BorrowReceive(r, b, e)
  \/ \E r \in Reqs : BorrowAdd(r)
  \/ \E r \in Reqs : BorrowSend(r)
  \/ \E r \in Reqs, ok \in BOOLEAN : BorrowMailDone(r, ok)
  \/ \E id \in 1 .. MaxLoans : PostReturn(id)

Spec == Init /\ [][Next]_vars

\* request handling with one borrow request in flight at a time
NextSolo ==
  \/ PostBook
  \/ \E id \in 1 .. MaxBooks : DeleteBook(id)
  \/ \E b \in BookIdInputs, e \in EmailInputs : BorrowReceive(1, b, e)
  \/ BorrowAdd(1)
  \/ BorrowSend(1)
  \/ \E ok \in BOOLEAN : BorrowMailDone(1, ok)
  \/ \E id \in 1 .. MaxLoans : PostReturn(id)

SpecSolo == Init /\ [][NextSolo]_vars

\* borrow requests only
NextBorrow ==
  \/ PostBook
  \/ \E r \in Reqs, b \in BookIdInputs, e \in EmailInputs : BorrowReceive(r, b, e)
  \/ \E r \in Reqs : BorrowAdd(r)
  \/ \E r \in Reqs : BorrowSend(r)
  \/ \E r \in Reqs, ok \in BOOLEAN : BorrowMailDone(r, ok)

SpecBorrow == Init /\ [][NextBorrow]_vars

\* the notification jobs, from the states request handling leaves when every
\* book has been created and the first n of them borrowed in turn
RECURSIVE lent(_, _)
lent(n, skews) ==
  IF n = 0 THEN <<>>
  ELSE LET before == lent(n - 1, skews)
           t1 == IF n = 1 THEN 0
                 ELSE parseDate(before[n - 1].return_date) - LoanDays * TicksPerDay
       IN Append(before,
                 borrowRow(n, <<"x", "@", "y", ".", "z">>, t1,
                           t1 + (IF n \in skews THEN 1 ELSE 0)))

InitLent ==
  \E n \in 1 .. MaxBooks : \E skews \in SUBSET (1 .. n) :
    /\ bookSeq = MaxBooks
    /\ books = [i \in 1 .. MaxBooks |-> [available |-> i > n]]
    /\ borrows = lent(n, skews)
    /\ now = parseDate(borrows[n].return_date) - LoanDays * TicksPerDay
    /\ req = [r \in Reqs |-> IF r = 1 THEN Response(n, <<[available |-> TRUE]>>, n, 200, "")
                             ELSE Idle]
    /\ cron = NoRun

NextCron ==
  \/ \E d \in {1, LoanDays * TicksPerDay} : Tick(d)
  \/ \E id \in 1 .. MaxLoans : PostReturn(id)
  \/ \E job \in {"reminder", "overdue"} : CronFire(job)
  \/ \E ok \in BOOLEAN : CronMailDone(ok)

SpecCron == InitLent /\ [][NextCron]_vars

\* ---------------------------------------------------------------- claims
activeLoans(b) ==
  {i \in 1 .. Len(borrows) : borrows[i].book_id = b /\ ~ borrows[i].returned}

\* the step in which request r, resumed after its lookup, calls addBorrow
callsAddBorrow(r) ==
  req[r].pc = "lookedUp" /\ req[r].book # <<>> /\ req'[r] # req[r]

\* C1: in every reachable state a book's available flag is false exactly
\* when some unreturned loan references the book.
AvailableIffNoActiveLoan ==
  \A b \in DOMAIN books : (~ books[b].available) <=> (activeLoans(b) # {})

\* C2: in every reachable state each book is referenced by at most one
\* unreturned loan.
AtMostOneActiveLoan ==
  \A b \in DOMAIN books : Cardinality(activeLoans(b)) <= 1

\* C3: a borrow of an existing, available book makes that book unavailable
\* and appends exactly one loan, for that book and the given userEmail, not
\* returned, whose returnDate is its borrowDate plus 14 days; no other book
\* and no other loan changes.
BorrowCreatesLoan ==
  [][\A r \in Reqs :
       (callsAddBorrow(r) /\ req[r].bookId \in DOMAIN books
          /\ books[req[r].bookId].available)
       => /\ books' = [books EXCEPT ![req[r].bookId].available = FALSE]
          /\ Len(borrows') = Len(borrows) + 1
          /\ SubSeq(borrows', 1, Len(borrows)) = borrows
          /\ LET row == borrows'[Len(borrows')]
             IN /\ row.book_id = req[r].bookId
                /\ row.user_email = req[r].userEmail
                /\ ~ row.returned
                /\ parseDate(row.return_date)
                     = parseDate(row.borrow_date) + LoanDays * TicksPerDay]_vars

\* C4: a borrow of an existing book that is not available is answered 400
\* 'Book is not available' and leaves every book and every loan as it was.
UnavailableBorrowRejected ==
  [][\A r \in Reqs :
       (callsAddBorrow(r) /\ req[r].bookId \in DOMAIN books
          /\ ~ books[req[r].bookId].available)
       => /\ books' = books
          /\ borrows' = borrows
          /\ req'[r].pc = "done"
          /\ req'[r].status = 400
          /\ req'[r].error = "Book is not available"
          /\ req'[r].borrow = 0]_vars

\* C4 witness: a request for a borrowed book has been answered 400 while the
\* loan that holds the book is still active.
UnavailableBorrowRejectedWitness ==
  \E r \in Reqs :
    /\ req[r].pc = "done" /\ req[r].status = 400
    /\ req[r].error = "Book is not available"
    /\ req[r].bookId \in DOMAIN books
    /\ ~ books[req[r].bookId].available
    /\ activeLoans(req[r].bookId) # {}

\* C5: returning a loan that is already returned changes no loan and makes
\* no book available that has an active loan.
SecondReturnHarmless ==
  [][\A id \in 1 .. Len(borrows) :
       (borrows[id].returned /\ PostReturn(id))
       => /\ borrows' = borrows
          /\ \A b \in DOMAIN books :
               (activeLoans(b) # {} /\ ~ books[b].available)
                 => ~ books'[b].available]_vars

\* C6: returning an active loan marks that loan returned and its book
\* available, so that the book can be borrowed again; no other loan and no
\* other book changes.
ReturnFreesBook ==
  [][\A id \in 1 .. Len(borrows) :
       (~ borrows[id].returned /\ PostReturn(id))
       => /\ borrows' = [borrows EXCEPT ![id].returned = TRUE]
          /\ borrows[id].book_id \in DOMAIN books
          /\ books' = [books EXCEPT ![borrows[id].book_id].available = TRUE]
          /\ borrows[id].book_id \in DOMAIN books'
          /\ books'[borrows[id].book_id].available]_vars

\* C6 witness: a loan has been returned and its book borrowed again by a
\* later loan, while a loan of another book stayed active throughout.
ReturnFreesBookWitness ==
  \E i \in 1 .. Len(borrows) : \E j \in 1 .. Len(borrows) :
  \E k \in 1 .. Len(borrows) :
    /\ borrows[i].returned
    /\ i < j /\ borrows[j].book_id = borrows[i].book_id /\ ~ borrows[j].returned
    /\ k < i /\ borrows[k].book_id # borrows[i].book_id /\ ~ borrows[k].returned
    /\ ~ books[borrows[k].book_id].available

\* C7: when a run of a notification job ends, every row of its query for
\* which the loop sends a mail has had its mail attempted.
FailureDoesNotAbortRun ==
  [][(cron.pc = "sending" /\ cron'.pc \in {"finished", "aborted"})
       => \A k \in 1 .. Len(cron.list) :
            sendsMail(cron.job, cron.list[k], cron.today)
              => cron.list[k] \in cron'.attempted]_vars

\* C8 as stated: getOverdueBooks holds a loan exactly when it is not returned
\* and its returnDate, as a full timestamp, is before now.
OverdueByTimestamp ==
  \A i \in 1 .. Len(borrows) :
    (\E k \in 1 .. Len(getOverdueBooks) : getOverdueBooks[k] = i)
      <=> (~ borrows[i].returned /\ parseDate(borrows[i].return_date) < now)

\* C8 as amended: getOverdueBooks holds a loan exactly when it is not
\* returned and the UTC calendar date of its returnDate is before the UTC
\* calendar date of now.
OverdueByDate ==
  \A i \in 1 .. Len(borrows) :
    (\E k \in 1 .. Len(getOverdueBooks) : getOverdueBooks[k] = i)
      <=> (~ borrows[i].returned
             /\ parseDate(borrows[i].return_date) \div TicksPerDay
                  < now \div TicksPerDay)

\* C8 witness: an overdue run has just queried; one loan is in its list, and
\* another unreturned loan whose returnDate passed earlier on the same day is
\* not.
OverdueByDateWitness ==
  /\ cron.pc = "sending" /\ cron.job = "overdue" /\ cron.today = now
  /\ cron.list = getOverdueBooks
  /\ \E i \in 1 .. Len(borrows) : \E j \in 1 .. Len(borrows) :
       /\ \E k \in 1 .. Len(cron.list) : cron.list[k] = i
       /\ \A k \in 1 .. Len(cron.list) : cron.list[k] # j
       /\ ~ borrows[j].returned
       /\ parseDate(borrows[j].return_date) < now
       /\ parseDate(borrows[j].return_date) \div TicksPerDay = now \div TicksPerDay

\* C9: with borrow requests interleaving at their awaits, no book ever has
\* two active loans, and of two answered requests that both looked up the same
\* book at most one created a loan and, if one did, the other was answered
\* 400 'Book is not available'.
ConcurrentBorrowsSafe ==
  /\ \A b \in DOMAIN books : Cardinality(activeLoans(b)) <= 1
  /\ \A r1 \in Reqs : \A r2 \in Reqs \ {r1} :
       ( /\ req[r1].pc \in {"added", "mailing", "done"} /\ req[r1].book # <<>>
         /\ req[r2].pc = "done" /\ req[r2].book # <<>>
         /\ req[r1].bookId = req[r2].bookId
         /\ req[r1].borrow # 0 )
       => /\ req[r2].borrow = 0
          /\ req[r2].status = 400
          /\ req[r2].error = "Book is not available"

\* C9 witness: two requests both looked the same book up while it was
\* available; one created the loan and is still awaiting its mail, the other
\* has been answered 400.
ConcurrentBorrowsSafeWitness ==
  \E r1 \in Reqs : \E r2 \in Reqs \ {r1} :
    /\ req[r1].pc = "mailing" /\ req[r1].borrow = 1
    /\ req[r1].book = <<[available |-> TRUE]>>
    /\ req[r2].pc = "done" /\ req[r2].book = <<[available |-> TRUE]>>
    /\ req[r2].bookId = req[r1].bookId
    /\ req[r2].status = 400 /\ req[r2].error = "Book is not available"
    /\ Len(borrows) = 1

\* C10: a POST /borrow answered with an error status created no loan.
ErrorMeansNoLoan ==
  \A r \in Reqs :
    (req[r].pc = "done" /\ req[r].status # 200) => req[r].borrow = 0

====
